---- MODULE Spec2Model ----
(***************************************************************************)
(* Model of the signal engine of ai-trading-site:                          *)
(*   src/backend/signals.ts  indicator library, normalizer, composite      *)
(*                           scorer, explanation builder, getCompositeSignal*)
(*   src/backend/server.ts   result cache (loadSignal) and the /api/picks   *)
(*                           batch handler.                                 *)
(*                                                                         *)
(* Three specifications share the variables:                               *)
(*   Spec          the server: clock, cache, batch requests in flight;      *)
(*   SpecAssemble  getCompositeSignal applied to bounded upstream responses;*)
(*   SpecScore     weightedComposite applied to bounded signal bundles.     *)
(***************************************************************************)
EXTENDS Integers, Sequences, FiniteSets, TLC

VARIABLES
  clock,       \* Date.now(), in milliseconds
  cache,       \* server.ts:21  Map<string, CachedSignal>
  reqs,        \* the /api/picks requests in flight, one record per slot
  assemblies,  \* number of getCompositeSignal invocations so far
  requests,    \* number of /api/picks requests received so far
  lastWriter,  \* history: per symbol, the assembly whose cache.set came last
  inp,         \* SpecAssemble / SpecScore: the input under evaluation
  out          \* SpecAssemble / SpecScore: the value computed from inp

vars == <<clock, cache, reqs, assemblies, requests, lastWriter, inp, out>>

(***************************************************************************)
(* Numbers.  A JavaScript number is modelled as an exact reduced rational  *)
(* [k |-> "num", n, d] or as NaN; null is the absent value.  Rounding of   *)
(* IEEE doubles is not modelled: every input below keeps the arithmetic    *)
(* exact, and no reachable path divides by zero.                           *)
(***************************************************************************)
Abs(i) == IF i < 0 THEN -i ELSE i

RECURSIVE Gcd(_, _)
Gcd(a, b) == IF b = 0 THEN a ELSE Gcd(b, a % b)

NaN == [k |-> "nan", n |-> 0, d |-> 1]
null == [k |-> "null", n |-> 0, d |-> 1]

Rat(n, d) ==
  IF d = 0 THEN NaN
  ELSE LET g == Gcd(Abs(n), Abs(d))
           s == IF d < 0 THEN -1 ELSE 1
       IN [k |-> "num", n |-> (s * n) \div g, d |-> (s * d) \div g]

Int2Num(i) == [k |-> "num", n |-> i, d |-> 1]
IsNum(x) == x.k = "num"
IsNaN(x) == x.k = "nan"
IsNull(x) == x.k = "null"

Add(x, y) == IF IsNum(x) /\ IsNum(y) THEN Rat(x.n * y.d + y.n * x.d, x.d * y.d) ELSE NaN
Sub(x, y) == IF IsNum(x) /\ IsNum(y) THEN Rat(x.n * y.d - y.n * x.d, x.d * y.d) ELSE NaN
Mul(x, y) == IF IsNum(x) /\ IsNum(y) THEN Rat(x.n * y.n, x.d * y.d) ELSE NaN
Div(x, y) == IF IsNum(x) /\ IsNum(y) THEN Rat(x.n * y.d, x.d * y.n) ELSE NaN
\* Comparisons with NaN (or null) are false, as in JavaScript.
Lt(x, y) == IsNum(x) /\ IsNum(y) /\ x.n * y.d < y.n * x.d
Gt(x, y) == Lt(y, x)
Le(x, y) == IsNum(x) /\ IsNum(y) /\ x.n * y.d <= y.n * x.d
NumAbs(x) == IF IsNum(x) THEN Rat(Abs(x.n), x.d) ELSE NaN
\* Math.max / Math.min: NaN if either argument is NaN.
MathMax(x, y) == IF IsNum(x) /\ IsNum(y) THEN (IF Lt(x, y) THEN y ELSE x) ELSE NaN
MathMin(x, y) == IF IsNum(x) /\ IsNum(y) THEN (IF Lt(y, x) THEN y ELSE x) ELSE NaN
\* Number.isFinite
IsFinite(x) == IsNum(x)

\* Math.sqrt on the rationals whose root is rational (the inputs below yield no other).
IntSqrt(m) == CHOOSE r \in 0..m : r * r = m
Sqrt(x) == Rat(IntSqrt(x.n), IntSqrt(x.d))

Zero == Int2Num(0)
One == Int2Num(1)

clamp(value) == MathMax(Int2Num(-1), MathMin(Int2Num(1), value))

(***************************************************************************)
(* Number.parseFloat on a text given as a sequence of characters: optional *)
(* sign, digits, optional fraction; the longest such prefix is the value   *)
(* and a text with no digit in that prefix is NaN.  (Leading blanks,       *)
(* exponents and "Infinity" are not in the alphabet of the inputs.)        *)
(***************************************************************************)
DigitChars == <<"0", "1", "2", "3", "4", "5", "6", "7", "8", "9">>
IsDigit(c) == \E i \in 1..10 : DigitChars[i] = c
DigitVal(c) == (CHOOSE i \in 1..10 : DigitChars[i] = c) - 1

RECURSIVE DigitRunEnd(_, _)
DigitRunEnd(text, i) ==
  IF i <= Len(text) /\ IsDigit(text[i]) THEN DigitRunEnd(text, i + 1) ELSE i - 1

RECURSIVE DigitsValue(_, _, _, _)
DigitsValue(text, lo, hi, acc) ==
  IF lo > hi THEN acc ELSE DigitsValue(text, lo + 1, hi, acc * 10 + DigitVal(text[lo]))

RECURSIVE Pow10(_)
Pow10(e) == IF e = 0 THEN 1 ELSE 10 * Pow10(e - 1)

parseFloat(text) ==
  LET signed == Len(text) >= 1 /\ text[1] \in {"-", "+"}
      sign == IF Len(text) >= 1 /\ text[1] = "-" THEN -1 ELSE 1
      first == IF signed THEN 2 ELSE 1
      intEnd == DigitRunEnd(text, first)
      hasDot == intEnd + 1 <= Len(text) /\ text[intEnd + 1] = "."
      fracEnd == IF hasDot THEN DigitRunEnd(text, intEnd + 2) ELSE intEnd
      nInt == intEnd - first + 1
      nFrac == IF hasDot THEN fracEnd - (intEnd + 1) ELSE 0
  IN IF nInt = 0 /\ nFrac = 0 THEN NaN
     ELSE Rat(sign * (DigitsValue(text, first, intEnd, 0) * Pow10(nFrac)
                      + DigitsValue(text, intEnd + 2, fracEnd, 0)),
              Pow10(nFrac))

\* A JSON field: absent (undefined) or a text.  `field ?? '0'`.
NoField == [present |-> FALSE, text |-> <<>>]
Field(text) == [present |-> TRUE, text |-> text]
OrZero(field) == IF field.present THEN field.text ELSE <<"0">>

(***************************************************************************)
(* Indicator library (signals.ts:57-293).  The source's loops are folds    *)
(* over an index range; a range is folded by halves, the left half being   *)
(* evaluated before the right half starts, so that the evaluation depth    *)
(* stays logarithmic in the length of the series.                          *)
(***************************************************************************)
RECURSIVE SumRange(_, _, _)
SumRange(values, lo, hi) ==
  IF lo > hi THEN Zero
  ELSE IF lo = hi THEN values[lo]
  ELSE LET mid == (lo + hi) \div 2
       IN Add(SumRange(values, lo, mid), SumRange(values, mid + 1, hi))

\* values.reduce((sum, value) => sum + value, 0) / values.length
rollingAverage(values) == Div(SumRange(values, 1, Len(values)), Int2Num(Len(values)))

\* values.slice(from - 1, to) in 1-based positions
Slice(values, from, to) == SubSeq(values, from, to)
\* values.slice(-period)
LastN(values, period) == Slice(values, Len(values) - period + 1, Len(values))

calculateSMA(values, period) ==
  IF Len(values) < period THEN null ELSE rollingAverage(LastN(values, period))

RsiSeedStep(values, i, acc) ==
  LET change == Sub(values[i], values[i - 1])
  IN IF Le(Zero, change)
     THEN [gains |-> Add(acc.gains, change), losses |-> acc.losses]
     ELSE [gains |-> acc.gains, losses |-> Add(acc.losses, NumAbs(change))]

RECURSIVE RsiSeed(_, _, _, _)
RsiSeed(values, lo, hi, acc) ==
  IF lo > hi THEN acc
  ELSE IF lo = hi THEN RsiSeedStep(values, lo, acc)
  ELSE LET mid == (lo + hi) \div 2
           left == RsiSeed(values, lo, mid, acc)
       IN IF left = left THEN RsiSeed(values, mid + 1, hi, left) ELSE acc

RsiSmoothStep(values, period, i, acc) ==
  LET change == Sub(values[i], values[i - 1])
      gain == MathMax(change, Zero)
      loss == MathMax(Sub(Zero, change), Zero)
  IN [avgGain |-> Div(Add(Mul(acc.avgGain, Int2Num(period - 1)), gain), Int2Num(period)),
      avgLoss |-> Div(Add(Mul(acc.avgLoss, Int2Num(period - 1)), loss), Int2Num(period))]

RECURSIVE RsiSmooth(_, _, _, _, _)
RsiSmooth(values, period, lo, hi, acc) ==
  IF lo > hi THEN acc
  ELSE IF lo = hi THEN RsiSmoothStep(values, period, lo, acc)
  ELSE LET mid == (lo + hi) \div 2
           left == RsiSmooth(values, period, lo, mid, acc)
       IN IF left = left THEN RsiSmooth(values, period, mid + 1, hi, left) ELSE acc

RsiPeriod == 14

\* The mutant of calculateRSI: a series with no gain and no loss reads 50 (neutral).
calculateRSIFlatNeutral(values) ==
  IF Len(values) <= RsiPeriod THEN null
  ELSE LET seed == RsiSeed(values, 2, RsiPeriod + 1, [gains |-> Zero, losses |-> Zero])
           avg == RsiSmooth(values, RsiPeriod, RsiPeriod + 2, Len(values),
                            [avgGain |-> Div(seed.gains, Int2Num(RsiPeriod)),
                             avgLoss |-> Div(seed.losses, Int2Num(RsiPeriod))])
       IN IF avg.avgLoss = Zero
          THEN (IF avg.avgGain = Zero THEN Int2Num(50) ELSE Int2Num(100))
          ELSE Sub(Int2Num(100),
                   Div(Int2Num(100), Add(One, Div(avg.avgGain, avg.avgLoss))))

\* values[i] of the source is values[i + 1] here: the seed loop runs over the
\* positions 2..period+1, the smoothing loop over period+2..Len(values).
calculateRSI(values) ==
  IF Len(values) <= RsiPeriod THEN null
  ELSE LET seed == RsiSeed(values, 2, RsiPeriod + 1, [gains |-> Zero, losses |-> Zero])
           avg == RsiSmooth(values, RsiPeriod, RsiPeriod + 2, Len(values),
                            [avgGain |-> Div(seed.gains, Int2Num(RsiPeriod)),
                             avgLoss |-> Div(seed.losses, Int2Num(RsiPeriod))])
       IN IF avg.avgLoss = Zero THEN Int2Num(100)
          ELSE Sub(Int2Num(100),
                   Div(Int2Num(100), Add(One, Div(avg.avgGain, avg.avgLoss))))

MacdShortPeriod == 12
MacdLongPeriod == 26
MacdSignalPeriod == 9
MacdMinLength == 35

NoMacd == [present |-> FALSE, macd |-> null, signal |-> null, histogram |-> null]

MacdStep(values, i, acc) ==
  LET kShort == Rat(2, MacdShortPeriod + 1)
      kLong == Rat(2, MacdLongPeriod + 1)
      emaShort == Add(Mul(values[i], kShort), Mul(acc.emaShort, Sub(One, kShort)))
      emaLong == Add(Mul(values[i], kLong), Mul(acc.emaLong, Sub(One, kLong)))
  IN [emaShort |-> emaShort, emaLong |-> emaLong,
      macdValues |-> Append(acc.macdValues, Sub(emaShort, emaLong))]

RECURSIVE MacdFold(_, _, _, _)
MacdFold(values, lo, hi, acc) ==
  IF lo > hi THEN acc
  ELSE IF lo = hi THEN MacdStep(values, lo, acc)
  ELSE LET mid == (lo + hi) \div 2
           left == MacdFold(values, lo, mid, acc)
       IN IF left = left THEN MacdFold(values, mid + 1, hi, left) ELSE acc

RECURSIVE SignalFold(_, _, _, _)
SignalFold(macdValues, lo, hi, signal) ==
  LET kSignal == Rat(2, MacdSignalPeriod + 1) IN
  IF lo > hi THEN signal
  ELSE IF lo = hi
       THEN Add(Mul(macdValues[lo], kSignal), Mul(signal, Sub(One, kSignal)))
  ELSE LET mid == (lo + hi) \div 2
           left == SignalFold(macdValues, lo, mid, signal)
       IN IF left = left THEN SignalFold(macdValues, mid + 1, hi, left) ELSE signal

calculateMACD(values) ==
  IF Len(values) < MacdMinLength THEN NoMacd
  ELSE LET run == MacdFold(values, MacdLongPeriod + 1, Len(values),
                           [emaShort |-> rollingAverage(Slice(values, 1, MacdShortPeriod)),
                            emaLong |-> rollingAverage(Slice(values, 1, MacdLongPeriod)),
                            macdValues |-> <<>>])
           macdValues == run.macdValues
       IN IF Len(macdValues) < MacdSignalPeriod THEN NoMacd
          ELSE LET signal == SignalFold(macdValues, MacdSignalPeriod + 1, Len(macdValues),
                                        rollingAverage(Slice(macdValues, 1, MacdSignalPeriod)))
                   macd == macdValues[Len(macdValues)]
               IN [present |-> TRUE, macd |-> macd, signal |-> signal,
                   histogram |-> Sub(macd, signal)]

BollingerPeriod == 20

NoBands == [present |-> FALSE, middle |-> null, variance |-> null]

\* The array a map() call returns, built once: `mapped` gives its n elements.
NewArray(mapped, n) == SubSeq(mapped, 1, n)

SquaredDeviations(slice, middle) ==
  LET Squared(value) == Mul(Sub(value, middle), Sub(value, middle))
  IN NewArray([i \in 1..Len(slice) |-> Squared(slice[i])], Len(slice))

\* stdDev is Math.sqrt(variance); the bands record keeps the variance, and
\* bollingerSignal takes the root.  upper and lower feed only display strings.
calculateBollinger(values) ==
  IF Len(values) < BollingerPeriod THEN NoBands
  ELSE LET slice == LastN(values, BollingerPeriod)
           middle == rollingAverage(slice)
           variance == Div(SumRange(SquaredDeviations(slice, middle), 1, Len(slice)),
                           Int2Num(BollingerPeriod))
       IN [present |-> TRUE, middle |-> middle, variance |-> variance]

VolumePeriod == 20

calculateVolumeSurge(volumes) ==
  IF Len(volumes) <= VolumePeriod THEN null
  ELSE LET recent == volumes[Len(volumes)]
           baseline == rollingAverage(Slice(volumes, Len(volumes) - VolumePeriod,
                                            Len(volumes) - 1))
       IN IF baseline = Zero \/ IsNaN(baseline) THEN null
          ELSE clamp(Sub(Div(recent, baseline), One))

(***************************************************************************)
(* Normalizer (signals.ts:295-346)                                         *)
(***************************************************************************)
NoSnapshot == [present |-> FALSE, a |-> null, b |-> null, c |-> null]
\* SentimentSnapshot {bullishPercent, bearishPercent, score}
SentimentSnapshot(bullishPercent, bearishPercent, score) ==
  [present |-> TRUE, a |-> bullishPercent, b |-> bearishPercent, c |-> score]
\* VolatilitySnapshot {currentIv, highIv, lowIv}
VolatilitySnapshot(currentIv, highIv, lowIv) ==
  [present |-> TRUE, a |-> currentIv, b |-> highIv, c |-> lowIv]

calculateIvRank(snapshot) ==
  IF ~snapshot.present THEN null
  ELSE LET currentIv == snapshot.a
           highIv == snapshot.b
           lowIv == snapshot.c
       IN IF ~IsFinite(currentIv) \/ ~IsFinite(highIv) \/ ~IsFinite(lowIv) \/ highIv = lowIv
          THEN null
          ELSE clamp(Sub(Mul(Div(Sub(currentIv, lowIv), Sub(highIv, lowIv)), Int2Num(2)), One))

sentimentSignal(snapshot) ==
  IF ~snapshot.present THEN null ELSE clamp(snapshot.c)

macdSignal(macd) ==
  IF ~macd.present THEN null
  ELSE LET base == macd.histogram
           scale == MathMax(Rat(1, 100), NumAbs(macd.signal))
       IN clamp(Div(base, scale))

\* clamp((latestPrice - middle) / (2 * stdDev)) with stdDev = sqrt(variance): when
\* (latestPrice - middle)^2 >= 4 * variance the quotient is at or beyond +-1 and the
\* clamp yields +-1 whatever the root is; otherwise the root is taken.
bollingerSignal(latestPrice, bands) ==
  IF ~bands.present \/ IsNull(latestPrice) THEN null
  ELSE IF bands.variance = Zero THEN Zero
  ELSE LET distance == Sub(latestPrice, bands.middle)
       IN IF Le(Mul(Int2Num(4), bands.variance), Mul(distance, distance))
          THEN (IF Lt(distance, Zero) THEN Int2Num(-1) ELSE One)
          ELSE clamp(Div(distance, Mul(Int2Num(2), Sqrt(bands.variance))))

smaSignal(sma50, sma200) ==
  IF IsNull(sma50) \/ IsNull(sma200) \/ sma200 = Zero THEN null
  ELSE clamp(Div(Sub(sma50, sma200), sma200))

rsiSignal(rsi) ==
  IF IsNull(rsi) THEN null ELSE clamp(Div(Sub(rsi, Int2Num(50)), Int2Num(25)))

(***************************************************************************)
(* IndicatorSignals, composite scorer and explanation builder              *)
(* (signals.ts:348-490)                                                    *)
(***************************************************************************)
\* Object.keys(signals): the keys in the order the record is built (signals.ts:518-526)
SignalKeys == <<"smaTrend", "rsi", "macd", "bollinger", "volumeSurge", "sentiment", "ivRank">>
SignalKeySet == {SignalKeys[i] : i \in 1..Len(SignalKeys)}

AllAbsent == [key \in SignalKeySet |-> null]

weights ==
  [smaTrend |-> Rat(20, 100), rsi |-> Rat(15, 100), macd |-> Rat(20, 100),
   bollinger |-> Rat(10, 100), volumeSurge |-> Rat(10, 100), sentiment |-> Rat(15, 100),
   ivRank |-> Rat(10, 100)]

RECURSIVE CompositeFold(_, _, _)
CompositeFold(signals, i, acc) ==
  IF i > Len(SignalKeys) THEN acc
  ELSE LET key == SignalKeys[i]
           value == signals[key]
       IN IF ~IsNull(value)
          THEN CompositeFold(signals, i + 1,
                 [weightedSum |-> Add(acc.weightedSum, Mul(value, weights[key])),
                  totalWeight |-> Add(acc.totalWeight, weights[key])])
          ELSE CompositeFold(signals, i + 1, acc)

\* The mutant of weightedComposite: the sum is divided by the sum of all seven weights.
weightedCompositeNoRenorm(signals) ==
  LET sums == CompositeFold(signals, 1, [weightedSum |-> Zero, totalWeight |-> Zero])
  IN IF sums.totalWeight = Zero THEN Zero ELSE clamp(Div(sums.weightedSum, One))

weightedComposite(signals) ==
  LET sums == CompositeFold(signals, 1, [weightedSum |-> Zero, totalWeight |-> Zero])
  IN IF sums.totalWeight = Zero THEN Zero
     ELSE clamp(Div(sums.weightedSum, sums.totalWeight))

\* One indicator's clause: bullish above the threshold, bearish below its negative.
Clause(value, threshold, bullish, bearish) ==
  IF IsNull(value) THEN <<>>
  ELSE IF Gt(value, threshold) THEN <<bullish>>
  ELSE IF Lt(value, Sub(Zero, threshold)) THEN <<bearish>>
  ELSE <<>>

RECURSIVE Join(_, _)
Join(parts, sep) ==
  IF Len(parts) = 0 THEN ""
  ELSE IF Len(parts) = 1 THEN parts[1]
  ELSE parts[1] \o sep \o Join(Tail(parts), sep)

NeutralExplanation == "Signals are mixed with no single driver dominating the setup."

buildExplanation(signals) ==
  LET highlights ==
        Clause(signals.smaTrend, Rat(2, 10),
               "Trend momentum: 50-day moving average is comfortably above the 200-day",
               "Downtrend pressure: 50-day average is tracking below the 200-day")
        \o Clause(signals.rsi, Rat(3, 10),
               "RSI momentum remains bullish", "RSI shows oversold momentum")
        \o Clause(signals.macd, Rat(3, 10),
               "MACD histogram is expanding above the signal line",
               "MACD histogram is weakening below the signal line")
        \o Clause(signals.volumeSurge, Rat(3, 10),
               "Volume is expanding versus the 20-day average",
               "Volume is contracting versus the 20-day average")
        \o Clause(signals.sentiment, Rat(2, 10),
               "News sentiment skewed bullish", "News sentiment skewed cautious")
        \o Clause(signals.ivRank, Rat(2, 10),
               "Implied volatility running hot relative to its range",
               "Implied volatility deeply discounted")
  IN IF Len(highlights) = 0 THEN NeutralExplanation
     ELSE Join(highlights, ". ") \o "."

\* IndicatorDetail {name, value, signal}: the display string `value` (toFixed
\* formatting) is left out; name, order and signal are kept.
Detail(name, signal) == [name |-> name, signal |-> signal]

NoFundamentals == [present |-> FALSE, PERatio |-> NoField, ProfitMargin |-> NoField]

buildDetails(params) ==
  LET latestPrice == params.latestPrice
      sma50 == params.sma50
      sma200 == params.sma200
      rsi == params.rsi
      macd == params.macd
      bollinger == params.bollinger
      volumeSurge == params.volumeSurge
      sentiment == params.sentiment
      ivRank == params.ivRank
      fundamentals == params.fundamentals
  IN
  <<Detail("Last Price", null)>>
  \o (IF ~IsNull(sma50) /\ ~IsNull(sma200)
      THEN <<Detail("SMA50 / SMA200", smaSignal(sma50, sma200))>> ELSE <<>>)
  \o (IF ~IsNull(rsi) THEN <<Detail("RSI(14)", rsiSignal(rsi))>> ELSE <<>>)
  \o (IF macd.present THEN <<Detail("MACD (Hist)", macdSignal(macd))>> ELSE <<>>)
  \o (IF bollinger.present
      THEN <<Detail("Bollinger Band", bollingerSignal(latestPrice, bollinger))>> ELSE <<>>)
  \o (IF ~IsNull(volumeSurge) THEN <<Detail("Volume vs Avg", clamp(volumeSurge))>> ELSE <<>>)
  \o (IF sentiment.present
      THEN <<Detail("Sentiment (Bull/Bear)", sentimentSignal(sentiment))>> ELSE <<>>)
  \o (IF ~IsNull(ivRank) THEN <<Detail("IV Rank", ivRank)>> ELSE <<>>)
  \o (IF fundamentals.present
      THEN LET peRatio == parseFloat(OrZero(fundamentals.PERatio))
               profitMargin == parseFloat(OrZero(fundamentals.ProfitMargin))
           IN (IF IsFinite(peRatio) /\ Gt(peRatio, Zero)
               THEN <<Detail("P/E Ratio", null)>> ELSE <<>>)
              \o (IF IsFinite(profitMargin) THEN <<Detail("Profit Margin", null)>> ELSE <<>>)
      ELSE <<>>)

(***************************************************************************)
(* Upstream collaborators (signals.ts:61-179).  `up` is what the outside   *)
(* world answers to one getCompositeSignal call: the configured API keys   *)
(* and the response of each of the four providers.                         *)
(***************************************************************************)
\* A daily series as Alpha Vantage returns it: n bars dated 1..n, the last m of
\* them closing at d with volume w and the earlier ones at c with volume v, plus
\* `bad` newer entries whose close does not parse; newest first unless oldestFirst.
Series(n, m, c, d, v, w, bad, oldestFirst) ==
  [n |-> n, m |-> m, c |-> c, d |-> d, v |-> v, w |-> w, bad |-> bad,
   oldestFirst |-> oldestFirst]

\* Object.entries(series).map(...) (signals.ts:85-92): the parsed entries in the
\* order of the response.
RawEntries(series) ==
  LET total == series.n + series.bad
      DateAt(p) == IF series.oldestFirst THEN p ELSE total + 1 - p
      Bar(date) ==
        IF date > series.n THEN [date |-> date, close |-> NaN, volume |-> Int2Num(series.w)]
        ELSE IF date > series.n - series.m
        THEN [date |-> date, close |-> Int2Num(series.d), volume |-> Int2Num(series.w)]
        ELSE [date |-> date, close |-> Int2Num(series.c), volume |-> Int2Num(series.v)]
  IN SubSeq([p \in 1..total |-> Bar(DateAt(p))], 1, total)

FiniteBar(bar) == IsFinite(bar.close) /\ IsFinite(bar.volume)

\* entries.sort((a, b) => date(a) - date(b)): the dates are the keys of one object
\* and so distinct; the sorted array puts each bar at the rank of its date.
SortByDate(bars) ==
  LET n == Len(bars)
      Rank(j) == Cardinality({k \in 1..n : bars[k].date < bars[j].date}) + 1
      ranks == SubSeq([j \in 1..n |-> Rank(j)], 1, n)
      place == SubSeq([r \in 1..n |-> CHOOSE j \in 1..n : ranks[j] = r], 1, n)
  IN SubSeq([r \in 1..n |-> bars[place[r]]], 1, n)

Threw == [ok |-> FALSE, bars |-> <<>>]

fetchPriceHistory(up) ==
  IF ~up.alphaKey THEN Threw
  ELSE IF up.price.kind = "httpError" THEN Threw
  ELSE IF up.price.kind = "noSeries" THEN Threw
  ELSE [ok |-> TRUE, bars |-> SortByDate(SelectSeq(RawEntries(up.price.series), FiniteBar))]

\* fetchFundamentals(symbol).catch(() => null) (signals.ts:99-114, 495-498)
fetchFundamentals(up) ==
  IF ~up.alphaKey THEN NoFundamentals
  ELSE IF up.fundamentals.kind = "httpError" THEN NoFundamentals
  ELSE IF up.fundamentals.kind = "empty" THEN NoFundamentals
  ELSE [present |-> TRUE, PERatio |-> up.fundamentals.PERatio,
        ProfitMargin |-> up.fundamentals.ProfitMargin]

\* The mutant of fetchSentiment: the missing key, the HTTP error and the missing
\* sentiment object are not turned into null.
fetchSentimentUnguarded(up) ==
  LET bullishPercent == parseFloat(OrZero(up.sentiment.bullishPercent))
      bearishPercent == parseFloat(OrZero(up.sentiment.bearishPercent))
      score == clamp(Div(Sub(bullishPercent, bearishPercent), Int2Num(100)))
  IN SentimentSnapshot(bullishPercent, bearishPercent, score)

\* signals.ts:116-142
fetchSentiment(up) ==
  IF ~up.finnhubKey THEN NoSnapshot
  ELSE IF up.sentiment.kind = "httpError" THEN NoSnapshot
  ELSE IF up.sentiment.kind = "noSentiment" THEN NoSnapshot
  ELSE LET bullishPercent == parseFloat(OrZero(up.sentiment.bullishPercent))
           bearishPercent == parseFloat(OrZero(up.sentiment.bearishPercent))
           score == clamp(Div(Sub(bullishPercent, bearishPercent), Int2Num(100)))
       IN SentimentSnapshot(bullishPercent, bearishPercent, score)

RECURSIVE MaxOf(_, _, _)
MaxOf(values, i, acc) ==
  IF i > Len(values) THEN acc ELSE MaxOf(values, i + 1, MathMax(acc, values[i]))

RECURSIVE MinOf(_, _, _)
MinOf(values, i, acc) ==
  IF i > Len(values) THEN acc ELSE MinOf(values, i + 1, MathMin(acc, values[i]))

\* kind "malformed": a payload on which results.map or result.implied_volatility
\* throws inside the try block.
fetchVolatility(up) ==
  IF ~up.polygonKey THEN NoSnapshot
  ELSE IF up.volatility.kind \in {"httpError", "malformed"} THEN NoSnapshot
  ELSE LET results == up.volatility.results
       IN IF Len(results) = 0 THEN NoSnapshot
          ELSE LET parsed == NewArray([i \in 1..Len(results) |-> parseFloat(results[i])],
                                      Len(results))
                   ivValues == SelectSeq(parsed, IsFinite)
               IN IF Len(ivValues) = 0 THEN NoSnapshot
                  ELSE VolatilitySnapshot(ivValues[1],
                                          MaxOf(ivValues, 2, ivValues[1]),
                                          MinOf(ivValues, 2, ivValues[1]))

(***************************************************************************)
(* Signal assembly (signals.ts:492-552)                                    *)
(***************************************************************************)
\* A rejected getCompositeSignal promise.
Rejected(symbol) ==
  [ok |-> FALSE, id |-> 0, symbol |-> symbol, score |-> Zero, updatedAt |-> 0,
   latestPrice |-> null, explanation |-> "", signals |-> AllAbsent, details |-> <<>>]

\* `at` is the time of new Date() at the return statement; `id` is the identity of
\* the object returned (each invocation builds a new one).
getCompositeSignal(symbol, up, at, id) ==
  LET prices == fetchPriceHistory(up)
      fundamentals == fetchFundamentals(up)
      sentiment == fetchSentiment(up)
      volatility == fetchVolatility(up)
  IN IF ~prices.ok \/ Len(prices.bars) = 0 THEN Rejected(symbol)
     ELSE LET bars == prices.bars
              closes == NewArray([i \in 1..Len(bars) |-> bars[i].close], Len(bars))
              volumes == NewArray([i \in 1..Len(bars) |-> bars[i].volume], Len(bars))
              latestPrice == closes[Len(closes)]
              sma50 == calculateSMA(closes, 50)
              sma200 == calculateSMA(closes, 200)
              rsi == calculateRSI(closes)
              macd == calculateMACD(closes)
              bollinger == calculateBollinger(closes)
              volumeSurge == calculateVolumeSurge(volumes)
              ivRank == calculateIvRank(volatility)
              indicatorSignals ==
                [smaTrend |-> smaSignal(sma50, sma200),
                 rsi |-> rsiSignal(rsi),
                 macd |-> macdSignal(macd),
                 bollinger |-> bollingerSignal(latestPrice, bollinger),
                 volumeSurge |-> volumeSurge,
                 sentiment |-> sentimentSignal(sentiment),
                 ivRank |-> ivRank]
          IN [ok |-> TRUE, id |-> id, symbol |-> symbol,
              score |-> weightedComposite(indicatorSignals),
              updatedAt |-> at,
              latestPrice |-> latestPrice,
              explanation |-> buildExplanation(indicatorSignals),
              signals |-> indicatorSignals,
              details |-> buildDetails(
                [latestPrice |-> latestPrice, sma50 |-> sma50, sma200 |-> sma200,
                 rsi |-> rsi, macd |-> macd, bollinger |-> bollinger,
                 volumeSurge |-> volumeSurge, sentiment |-> sentiment,
                 ivRank |-> ivRank, fundamentals |-> fundamentals])]

(***************************************************************************)
(* Bounded upstream responses                                              *)
(***************************************************************************)
PriceResponse(kind, series) == [kind |-> kind, series |-> series]
NoSeries == Series(0, 0, 0, 0, 0, 0, 0, FALSE)

FundamentalsResponse(kind, pe, margin) ==
  [kind |-> kind, PERatio |-> pe, ProfitMargin |-> margin]
SentimentResponse(kind, bullish, bearish) ==
  [kind |-> kind, bullishPercent |-> bullish, bearishPercent |-> bearish]
VolatilityResponse(kind, results) == [kind |-> kind, results |-> results]

Upstream(alphaKey, finnhubKey, polygonKey, price, fundamentals, sentiment, volatility) ==
  [alphaKey |-> alphaKey, finnhubKey |-> finnhubKey, polygonKey |-> polygonKey,
   price |-> price, fundamentals |-> fundamentals, sentiment |-> sentiment,
   volatility |-> volatility]

\* Price responses that fail, are empty, or are shorter than the longest window.
FlatScenario == Series(250, 1, 100, 100, 1000, 1000, 0, FALSE)

ShortPrices ==
  { PriceResponse("httpError", NoSeries),
    PriceResponse("noSeries", NoSeries),
    PriceResponse("series", NoSeries),
    PriceResponse("series", Series(0, 0, 0, 0, 0, 0, 2, FALSE)),
    PriceResponse("series", Series(1, 1, 100, 100, 1000, 1000, 1, FALSE)),
    PriceResponse("series", Series(15, 1, 100, 103, 1000, 1000, 0, FALSE)),
    PriceResponse("series", Series(21, 1, 100, 97, 1000, 3000, 0, TRUE)),
    PriceResponse("series", Series(20, 10, 100, 110, 1000, 500, 0, FALSE)) }

\* Price responses that reach the MACD, SMA50 and SMA200 windows.
LongPrices ==
  { PriceResponse("series", Series(34, 1, 100, 110, 1000, 1000, 0, FALSE)),
    PriceResponse("series", Series(35, 1, 100, 110, 1000, 0, 0, FALSE)),
    PriceResponse("series", Series(50, 1, 100, 90, 0, 1000, 0, TRUE)),
    PriceResponse("series", Series(199, 1, 100, 100, 1000, 1000, 0, FALSE)),
    PriceResponse("series", Series(200, 1, 100, 100, 1000, 1000, 1, FALSE)),
    PriceResponse("series", FlatScenario),
    PriceResponse("series", Series(250, 1, 100, 1600, 1000, 1500, 0, FALSE)),
    PriceResponse("series", Series(250, 1, 0, 0, 1000, 900, 0, FALSE)),
    PriceResponse("series", Series(250, 1, 100, -3000, 1000, 1000, 0, FALSE)) }

FundamentalsResponses ==
  { FundamentalsResponse("httpError", NoField, NoField),
    FundamentalsResponse("empty", NoField, NoField),
    FundamentalsResponse("ok", Field(<<"1", "5", ".", "2">>), Field(<<"0", ".", "2", "5">>)) }

UnratedFundamentals == FundamentalsResponse("ok", Field(<<"N", "o", "n", "e">>), NoField)


SentimentResponses ==
  { SentimentResponse("httpError", NoField, NoField),
    SentimentResponse("noSentiment", NoField, NoField),
    SentimentResponse("ok", Field(<<"8", "0">>), Field(<<"2", "0">>)),
    SentimentResponse("ok", Field(<<"2", "0">>), Field(<<"8", "0">>)),
    SentimentResponse("ok", NoField, Field(<<"1", "0">>)),
    SentimentResponse("ok", Field(<<"n", "/", "a">>), Field(<<"2", "0">>)) }

VolatilityResponses ==
  { VolatilityResponse("httpError", <<>>),
    VolatilityResponse("malformed", <<>>),
    VolatilityResponse("ok", <<>>),
    VolatilityResponse("ok", << <<"0", ".", "9">>, <<"0", ".", "7">>, <<"0", ".", "1">> >>),
    VolatilityResponse("ok", << <<"x">>, <<"0", ".", "1">>, <<"0", ".", "9">> >>),
    VolatilityResponse("ok", << <<"0", ".", "4">> >>),
    VolatilityResponse("ok", << <<"n", "/", "a">>, <<"-">> >>) }

\* Every configuration and every optional response with the short price responses;
\* every sentiment and volatility response with the long ones; fundamentals without
\* a numeric P/E ratio with every price response.
AssembleInputs ==
  { Upstream(a, f, p, price, fund, sent, vol) :
      a \in BOOLEAN, f \in BOOLEAN, p \in BOOLEAN, price \in ShortPrices,
      fund \in FundamentalsResponses, sent \in SentimentResponses,
      vol \in VolatilityResponses }
  \cup
  { Upstream(TRUE, TRUE, TRUE, price, FundamentalsResponse("empty", NoField, NoField),
             sent, vol) :
      price \in LongPrices, sent \in SentimentResponses, vol \in VolatilityResponses }
  \cup
  { Upstream(TRUE, FALSE, FALSE, price, UnratedFundamentals,
             SentimentResponse("noSentiment", NoField, NoField),
             VolatilityResponse("ok", <<>>)) :
      price \in ShortPrices \cup LongPrices }

ScoreValues == {null, Int2Num(-1), Zero, Rat(1, 2), One}
ScoreInputs == [SignalKeySet -> ScoreValues]

(***************************************************************************)
(* SpecAssemble and SpecScore: the pure functions applied to bounded inputs *)
(***************************************************************************)
PureSymbol == "SPY"
NotComputed == [done |-> FALSE, result |-> Rejected(PureSymbol), score |-> null]

Assemble ==
  /\ ~out.done
  /\ out' = [done |-> TRUE, result |-> getCompositeSignal(PureSymbol, inp, clock, 1),
             score |-> null]
  /\ UNCHANGED <<clock, cache, reqs, assemblies, requests, lastWriter, inp>>

Score ==
  /\ ~out.done
  /\ out' = [done |-> TRUE, result |-> Rejected(PureSymbol),
             score |-> weightedComposite(inp)]
  /\ UNCHANGED <<clock, cache, reqs, assemblies, requests, lastWriter, inp>>

(***************************************************************************)
(* Server (server.ts): configuration, result cache, /api/picks             *)
(***************************************************************************)
\* Bounds of the server model.
MaxClock == 2        \* the clock stops advancing here
MaxSymbols == 2      \* symbols in one query string
MaxAssemblies == 2   \* getCompositeSignal invocations in one behaviour
MaxRequests == 2     \* /api/picks requests in one behaviour
\* process.env.SIGNAL_CACHE_MS, in milliseconds.
SIGNAL_CACHE_MS == 2

Symbols == {"SPY", "QQQ"}
\* Request k is the k-th request received.
Slots == 1..MaxRequests

\* server.ts:12-14 with WATCHLIST=SPY,QQQ
DEFAULT_SYMBOLS == <<"SPY", "QQQ">>
\* server.ts:22
CACHE_TTL_MS == SIGNAL_CACHE_MS

NoEntry == [present |-> FALSE, payload |-> Rejected(""), updatedAt |-> 0]

\* The mutant of IsFresh: an entry expires one millisecond early.
IsFreshEarly(cached, now) == cached.present /\ now - cached.updatedAt < CACHE_TTL_MS - 1

\* The mutant of IsFresh: the boundary now - updatedAt = TTL still counts as fresh.
IsFreshInclusive(cached, now) == cached.present /\ now - cached.updatedAt <= CACHE_TTL_MS

\* server.ts:27  cached && now - cached.updatedAt < CACHE_TTL_MS
IsFresh(cached, now) == cached.present /\ now - cached.updatedAt < CACHE_TTL_MS

\* The mutant of CacheSet: an entry already stored for the key is kept.
CacheSetIfAbsent(map, symbol, payload, now) ==
  IF map[symbol].present THEN map
  ELSE [map EXCEPT ![symbol] = [present |-> TRUE, payload |-> payload, updatedAt |-> now]]

\* server.ts:32  cache.set(symbol, { payload, updatedAt: now })
CacheSet(map, symbol, payload, now) ==
  [map EXCEPT ![symbol] = [present |-> TRUE, payload |-> payload, updatedAt |-> now]]

\* server.ts:51-67: the record substituted in the catch block
Placeholder(symbol, at) ==
  [ok |-> TRUE, id |-> 0, symbol |-> symbol, score |-> Zero, updatedAt |-> at,
   latestPrice |-> null, explanation |-> "Signal unavailable due to upstream data error.",
   signals |-> AllAbsent, details |-> <<>>]

\* The mutant of Settled: the rejection of loadSignal is not caught.
SettledUncaught(symbol, loaded, at) ==
  [threw |-> ~loaded.ok, pick |-> loaded]

\* server.ts:46-69: the async function mapped over the symbols, given the settled
\* loadSignal promise: its value, or the placeholder when it rejected.
Settled(symbol, loaded, at) ==
  [threw |-> FALSE, pick |-> IF loaded.ok THEN loaded ELSE Placeholder(symbol, at)]

\* One loadSignal call of a request.  st: "hit" (returned from the cache), "pending"
\* (awaiting getCompositeSignal), "ok", "failed" (placeholder substituted), "threw".
\* prevId, prevAt: history, the payload a successful call's cache.set replaced.
Call(symbol, st, now, id, result) ==
  [symbol |-> symbol, st |-> st, now |-> now, id |-> id, result |-> result,
   prevId |-> 0, prevAt |-> 0]

\* server.ts:24-31 up to the await: the calls of one request start in order, at `now`.
RECURSIVE StartCalls(_, _, _, _, _)
StartCalls(symbols, i, now, nextId, acc) ==
  IF i > Len(symbols) THEN acc
  ELSE LET symbol == symbols[i]
           cached == cache[symbol]
       IN IF IsFresh(cached, now)
          THEN StartCalls(symbols, i + 1, now, nextId,
                          Append(acc, Call(symbol, "hit", now, 0, cached.payload)))
          ELSE StartCalls(symbols, i + 1, now, nextId + 1,
                          Append(acc, Call(symbol, "pending", now, nextId, Rejected(symbol))))

Misses(calls) == Cardinality({i \in 1..Len(calls) : calls[i].st = "pending"})

\* (a, b) => b.score - a.score, as Array.prototype.sort reads it: NaN counts as 0.
SortCmp(a, b) ==
  LET v == Sub(b.score, a.score)
  IN IF IsNaN(v) THEN 0 ELSE IF v.n < 0 THEN -1 ELSE IF v.n > 0 THEN 1 ELSE 0

\* Stable insertion: x goes behind the last element that does not sort after it.
RECURSIVE InsertAt(_, _, _)
InsertAt(sorted, x, j) ==
  IF j >= 1 /\ SortCmp(sorted[j], x) > 0 THEN InsertAt(sorted, x, j - 1)
  ELSE SubSeq(sorted, 1, j) \o <<x>> \o SubSeq(sorted, j + 1, Len(sorted))

RECURSIVE StableSort(_, _, _)
StableSort(picks, i, sorted) ==
  IF i > Len(picks) THEN sorted
  ELSE StableSort(picks, i + 1, InsertAt(sorted, picks[i], Len(sorted)))

\* The comparator is consistent when "compares equal" is transitive (a NaN score
\* compares equal to every score).
ConsistentComparator(picks) ==
  \A i, j, k \in 1..Len(picks) :
    SortCmp(picks[i], picks[j]) = 0 /\ SortCmp(picks[j], picks[k]) = 0
      => SortCmp(picks[i], picks[k]) = 0

IndexPermutations(n) == {p \in [1..n -> 1..n] : \A i, j \in 1..n : p[i] = p[j] => i = j}

\* server.ts:72  picks.slice().sort(...): the stable sort, or, with an inconsistent
\* comparator, an order the implementation chooses.
SortOutcomes(picks) ==
  IF ConsistentComparator(picks) THEN {StableSort(picks, 1, <<>>)}
  ELSE {[i \in 1..Len(picks) |-> picks[p[i]]] : p \in IndexPermutations(Len(picks))}

\* The response's own updatedAt stamp (server.ts:75) is left out.
Idle == [state |-> "idle", symbols |-> <<>>, calls |-> <<>>, status |-> 0, picks |-> <<>>]

Queries == UNION {[1..n -> Symbols] : n \in 0..MaxSymbols}

\* What the providers answer to the assemblies of the server model.
OneBar == PriceResponse("series", Series(1, 1, 100, 100, 1000, 1000, 0, FALSE))
ServerUpstream(price, sentiment) ==
  Upstream(TRUE, TRUE, TRUE, price, FundamentalsResponse("empty", NoField, NoField),
           sentiment, VolatilityResponse("ok", <<>>))
ServerUpstreams ==
  { ServerUpstream(PriceResponse("httpError", NoSeries),
                   SentimentResponse("noSentiment", NoField, NoField)),
    ServerUpstream(OneBar, SentimentResponse("ok", Field(<<"8", "0">>), Field(<<"2", "0">>))),
    ServerUpstream(OneBar, SentimentResponse("ok", Field(<<"n", "/", "a">>), NoField)) }

ServerInit ==
  /\ clock = 0
  /\ cache = [s \in Symbols |-> NoEntry]
  /\ reqs = [r \in Slots |-> Idle]
  /\ assemblies = 0
  /\ requests = 0
  /\ lastWriter = [s \in Symbols |-> 0]

\* GET /api/picks arrives: the handler runs to the first await of every loadSignal.
Request(r, query) ==
  LET symbols == IF Len(query) > 0 THEN query ELSE DEFAULT_SYMBOLS
      calls == StartCalls(symbols, 1, clock, assemblies + 1, <<>>)
  IN /\ r = requests + 1
     /\ reqs[r].state = "idle"
     /\ assemblies + Misses(calls) <= MaxAssemblies
     /\ reqs' = [reqs EXCEPT ![r] = [state |-> "open", symbols |-> symbols,
                                     calls |-> calls, status |-> 0, picks |-> <<>>]]
     /\ assemblies' = assemblies + Misses(calls)
     /\ requests' = requests + 1
     /\ UNCHANGED <<clock, cache, lastWriter, inp, out>>

\* The mutant of Resume: the pick the mapped function settles with is stored in
\* the cache whether or not the assembly succeeded.
ResumeStoringPick(r, i, call, loaded, settled) ==
  /\ reqs' = [reqs EXCEPT ![r].calls[i] =
                [call EXCEPT !.st = IF settled.threw THEN "threw"
                                    ELSE IF loaded.ok THEN "ok" ELSE "failed",
                             !.result = settled.pick]]
  /\ cache' = CacheSet(cache, call.symbol, settled.pick, call.now)
  /\ lastWriter' = IF loaded.ok THEN [lastWriter EXCEPT ![call.symbol] = call.id]
                   ELSE lastWriter
  /\ UNCHANGED <<clock, assemblies, requests, inp, out>>

\* loadSignal resumes with the settled getCompositeSignal promise (server.ts:31-33)
\* and the mapped function settles (server.ts:48-68).
Resume(r, i, call, loaded, settled) ==
  /\ reqs' = [reqs EXCEPT ![r].calls[i] =
                [call EXCEPT !.st = IF settled.threw THEN "threw"
                                    ELSE IF loaded.ok THEN "ok" ELSE "failed",
                             !.result = settled.pick,
                             !.prevId = IF loaded.ok /\ cache[call.symbol].present
                                        THEN cache[call.symbol].payload.id ELSE 0,
                             !.prevAt = IF loaded.ok /\ cache[call.symbol].present
                                        THEN cache[call.symbol].payload.updatedAt ELSE 0]]
  /\ cache' = IF loaded.ok THEN CacheSet(cache, call.symbol, loaded, call.now) ELSE cache
  /\ lastWriter' = IF loaded.ok THEN [lastWriter EXCEPT ![call.symbol] = call.id]
                   ELSE lastWriter
  /\ UNCHANGED <<clock, assemblies, requests, inp, out>>

Settle(r, i, call, loaded) ==
  Resume(r, i, call, loaded, Settled(call.symbol, loaded, clock))

\* getCompositeSignal settles for call i of request r, the providers having
\* answered `up`.
Resolve(r, i, up) ==
  /\ reqs[r].state = "open"
  /\ reqs[r].calls[i].st = "pending"
  /\ Settle(r, i, reqs[r].calls[i],
            getCompositeSignal(reqs[r].calls[i].symbol, up, clock, reqs[r].calls[i].id))

\* Promise.all settles: the sorted picks are sent (server.ts:72-78), or the generic
\* failure when a mapped function rejected (server.ts:79-82).
Respond(r) ==
  LET calls == reqs[r].calls
      picks == [i \in 1..Len(calls) |-> calls[i].result]
  IN /\ reqs[r].state = "open"
     /\ \/ /\ \E i \in 1..Len(calls) : calls[i].st = "threw"
           /\ reqs' = [reqs EXCEPT ![r].state = "done", ![r].status = 500]
        \/ /\ \A i \in 1..Len(calls) : calls[i].st \in {"hit", "ok", "failed"}
           /\ \E sorted \in SortOutcomes(picks) :
                reqs' = [reqs EXCEPT ![r].state = "done", ![r].status = 200,
                                     ![r].picks = sorted]
     /\ UNCHANGED <<clock, cache, assemblies, requests, lastWriter, inp, out>>

Tick ==
  /\ clock < MaxClock
  /\ clock' = clock + 1
  /\ UNCHANGED <<cache, reqs, assemblies, requests, lastWriter, inp, out>>

Init == ServerInit /\ inp = <<>> /\ out = NotComputed

Next ==
  \/ \E r \in Slots, query \in Queries : Request(r, query)
  \/ \E r \in Slots, i \in 1..MaxSymbols, up \in ServerUpstreams :
       i <= Len(reqs[r].calls) /\ Resolve(r, i, up)
  \/ \E r \in Slots : Respond(r)
  \/ Tick

Spec == Init /\ [][Next]_vars

InitAssemble == ServerInit /\ inp \in AssembleInputs /\ out = NotComputed
NextAssemble == Assemble
SpecAssemble == InitAssemble /\ [][NextAssemble]_vars

InitScore == ServerInit /\ inp \in ScoreInputs /\ out = NotComputed
NextScore == Score
SpecScore == InitScore /\ [][NextScore]_vars


(***************************************************************************)
(* Properties of the composite scorer (SpecScore)                          *)
(***************************************************************************)
\* The weights by the names the specification gives the seven signals.
DocumentedWeights ==
  [smaTrend |-> Rat(20, 100), rsi |-> Rat(15, 100), macd |-> Rat(20, 100),
   bollinger |-> Rat(10, 100), volumeSurge |-> Rat(10, 100), sentiment |-> Rat(15, 100),
   ivRank |-> Rat(10, 100)]

PresentKeys(signals) == {key \in SignalKeySet : ~IsNull(signals[key])}

RECURSIVE SumOver(_, _)
SumOver(keys, term) ==
  IF keys = {} THEN Zero
  ELSE LET key == CHOOSE k \in keys : TRUE
       IN Add(term[key], SumOver(keys \ {key}, term))

\* clamp( sum(present value * weight) / sum(weights of the present signals) )
DocumentedScore(signals) ==
  LET present == PresentKeys(signals)
      weighted == [key \in present |-> Mul(signals[key], DocumentedWeights[key])]
      ratio == Div(SumOver(present, weighted), SumOver(present, DocumentedWeights))
  IN IF Lt(ratio, Int2Num(-1)) THEN Int2Num(-1)
     ELSE IF Gt(ratio, One) THEN One ELSE ratio

InUnitRange(x) == IsNum(x) /\ Le(Int2Num(-1), x) /\ Le(x, One)

\* C6: for every subset of present signals with values in [-1,1], weightedComposite
\* returns the clamped weighted sum of the present signals divided by the sum of
\* their documented weights; the score lies in [-1,1] and is exactly 0 when all
\* seven signals are absent.
C6_WeightedComposite ==
  out.done =>
    /\ InUnitRange(out.score)
    /\ PresentKeys(inp) = {} => out.score = Zero
    /\ PresentKeys(inp) # {} => out.score = DocumentedScore(inp)

\* Only the oscillator (1) and sentiment (1/2) are present: (0.15 + 0.075) / 0.30.
C6_Witness ==
  /\ out.done
  /\ PresentKeys(inp) = {"rsi", "sentiment"}
  /\ inp.rsi = One
  /\ inp.sentiment = Rat(1, 2)
  /\ out.score = Rat(3, 4)


(***************************************************************************)
(* Properties of signal assembly (SpecAssemble)                            *)
(***************************************************************************)
\* The price request succeeds and at least one entry of the series parses.
PriceObtained(up) == up.alphaKey /\ up.price.kind = "series" /\ up.price.series.n > 0

SentimentUnavailable(up) ==
  ~up.finnhubKey \/ up.sentiment.kind \in {"httpError", "noSentiment"}

VolatilityUnavailable(up) ==
  ~up.polygonKey \/ up.volatility.kind \in {"httpError", "malformed"}
  \/ Len(up.volatility.results) = 0

FundamentalsUnavailable(up) ==
  ~up.alphaKey \/ up.fundamentals.kind \in {"httpError", "empty"}

\* The same upstream answers with one optional request failing.
FailFundamentals(up) ==
  [up EXCEPT !.fundamentals = FundamentalsResponse("httpError", NoField, NoField)]
FailSentiment(up) ==
  [up EXCEPT !.sentiment = SentimentResponse("httpError", NoField, NoField)]
FailVolatility(up) ==
  [up EXCEPT !.volatility = VolatilityResponse("httpError", <<>>)]

DetailNames(result) == {result.details[i].name : i \in 1..Len(result.details)}
DetailsWithout(result, names) ==
  LET Kept(detail) == detail.name \notin names
  IN SelectSeq(result.details, Kept)

\* The result `other`, assembled with one optional request failing, differs from
\* `result` in nothing but the signal `key` and the details `names` of that request.
SameExcept(result, other, key, names) ==
  /\ other.ok = result.ok
  /\ other.latestPrice = result.latestPrice
  /\ \A k \in SignalKeySet \ {key} : other.signals[k] = result.signals[k]
  /\ key \in SignalKeySet => IsNull(other.signals[key])
  /\ DetailsWithout(other, names) = DetailsWithout(result, names)
  /\ DetailNames(other) \cap names = {}

\* C2: getCompositeSignal rejects exactly when no price history is obtained; with
\* a price history it returns a result whatever the three optional requests do, an
\* unavailable sentiment or volatility snapshot makes exactly that signal absent,
\* and failing one optional request changes nothing derived from the others.
C2_AssembleFailsOnlyWithoutPrices ==
  out.done =>
    /\ out.result.ok <=> PriceObtained(inp)
    /\ PriceObtained(inp) /\ SentimentUnavailable(inp) => IsNull(out.result.signals.sentiment)
    /\ PriceObtained(inp) /\ VolatilityUnavailable(inp) => IsNull(out.result.signals.ivRank)
    /\ PriceObtained(inp) /\ ~FundamentalsUnavailable(inp) =>
         SameExcept(out.result, getCompositeSignal(PureSymbol, FailFundamentals(inp), clock, 1),
                    "none", {"P/E Ratio", "Profit Margin"})
    /\ PriceObtained(inp) /\ ~SentimentUnavailable(inp) =>
         SameExcept(out.result, getCompositeSignal(PureSymbol, FailSentiment(inp), clock, 1),
                    "sentiment", {"Sentiment (Bull/Bear)"})
    /\ PriceObtained(inp) /\ ~VolatilityUnavailable(inp) =>
         SameExcept(out.result, getCompositeSignal(PureSymbol, FailVolatility(inp), clock, 1),
                    "ivRank", {"IV Rank"})

\* A result with a price history and all three optional requests failing.
C2_Witness ==
  /\ out.done
  /\ out.result.ok
  /\ inp.finnhubKey /\ inp.polygonKey
  /\ inp.fundamentals.kind = "httpError"
  /\ inp.sentiment.kind = "httpError"
  /\ inp.volatility.kind = "httpError"
  /\ IsNull(out.result.signals.sentiment)
  /\ IsNull(out.result.signals.ivRank)
  /\ ~IsNull(out.result.signals.rsi)


\* Every signal of a result is absent or a number in [-1,1].
SignalsBounded(result) ==
  \A key \in SignalKeySet : IsNull(result.signals[key]) \/ InUnitRange(result.signals[key])

\* An optional snapshot whose fields do not parse as numbers.
MalformedSentiment(up) ==
  /\ up.finnhubKey
  /\ up.sentiment.kind = "ok"
  /\ \/ IsNaN(parseFloat(OrZero(up.sentiment.bullishPercent)))
     \/ IsNaN(parseFloat(OrZero(up.sentiment.bearishPercent)))

MalformedVolatility(up) ==
  /\ up.polygonKey
  /\ up.volatility.kind = "ok"
  /\ \A i \in 1..Len(up.volatility.results) : IsNaN(parseFloat(up.volatility.results[i]))

\* C7: in every result of getCompositeSignal each of the seven signals is absent
\* or a number in [-1,1], and a missing, unconfigured or malformed sentiment or
\* volatility snapshot gives an absent signal.
C7_SignalsAbsentOrBounded ==
  out.done /\ out.result.ok =>
    /\ SignalsBounded(out.result)
    /\ SentimentUnavailable(inp) \/ MalformedSentiment(inp)
         => IsNull(out.result.signals.sentiment)
    /\ VolatilityUnavailable(inp) \/ MalformedVolatility(inp)
         => IsNull(out.result.signals.ivRank)

\* The part of C7 the code keeps: every signal but sentiment is absent or in
\* [-1,1], and a malformed volatility snapshot gives an absent signal.
C7_OtherSignalsBounded ==
  out.done /\ out.result.ok =>
    /\ \A key \in SignalKeySet \ {"sentiment"} :
         IsNull(out.result.signals[key]) \/ InUnitRange(out.result.signals[key])
    /\ VolatilityUnavailable(inp) \/ MalformedVolatility(inp)
         => IsNull(out.result.signals.ivRank)
    /\ ~MalformedSentiment(inp) => SignalsBounded(out.result)

\* A non-numeric bullish percentage reaches the result as a not-a-number signal.
C7_NaNSentiment ==
  /\ out.done
  /\ out.result.ok
  /\ MalformedSentiment(inp)
  /\ IsNaN(out.result.signals.sentiment)
  /\ IsNaN(out.result.score)

FlatInput(up) ==
  /\ up.alphaKey
  /\ up.price = PriceResponse("series", FlatScenario)
  /\ FundamentalsUnavailable(up)
  /\ SentimentUnavailable(up)
  /\ VolatilityUnavailable(up)

\* C9 as stated: 250 bars closing at 100 with volume 1000 and no optional snapshot
\* give neutral trend, oscillator, band and volume signals, score 0 and the
\* neutral sentence.
C9_FlatSeriesNeutral ==
  out.done /\ FlatInput(inp) =>
    /\ out.result.ok
    /\ out.result.signals.smaTrend = Zero
    /\ out.result.signals.rsi = Zero
    /\ out.result.signals.bollinger = Zero
    /\ out.result.signals.volumeSurge = Zero
    /\ out.result.score = Zero
    /\ out.result.explanation = NeutralExplanation

\* C9: with no losses in the series calculateRSI returns 100, so the oscillator
\* signal of the flat series is +1; trend, band and volume signals are 0, the
\* score is 0.15 / 0.75 = 1/5 and the explanation is the bullish RSI clause.
C9_FlatSeriesOscillatorHigh ==
  out.done /\ FlatInput(inp) =>
    /\ out.result.ok
    /\ out.result.signals.smaTrend = Zero
    /\ out.result.signals.rsi = One
    /\ out.result.signals.macd = Zero
    /\ out.result.signals.bollinger = Zero
    /\ out.result.signals.volumeSurge = Zero
    /\ IsNull(out.result.signals.sentiment)
    /\ IsNull(out.result.signals.ivRank)
    /\ out.result.score = Rat(1, 5)
    /\ out.result.explanation = "RSI momentum remains bullish."

C9_Witness ==
  /\ out.done
  /\ FlatInput(inp)
  /\ out.result.latestPrice = Int2Num(100)
  /\ out.result.signals.rsi = One
  /\ out.result.score = Rat(1, 5)


(***************************************************************************)
(* Properties of the server (Spec)                                         *)
(***************************************************************************)
Results(r) == [i \in 1..Len(reqs[r].calls) |-> reqs[r].calls[i].result]

\* `picks` holds the per-symbol results of request r, one per requested symbol.
OnePickPerSymbol(r, picks) ==
  /\ Len(picks) = Len(reqs[r].symbols)
  /\ \E p \in IndexPermutations(Len(picks)) :
       \A i \in 1..Len(picks) :
         /\ picks[i] = Results(r)[p[i]]
         /\ picks[i].symbol = reqs[r].symbols[p[i]]

DegradedPlaceholder(pick, symbol) ==
  /\ pick.symbol = symbol
  /\ pick.score = Zero
  /\ IsNull(pick.latestPrice)
  /\ \A key \in SignalKeySet : IsNull(pick.signals[key])
  /\ pick.details = <<>>
  /\ pick.explanation = "Signal unavailable due to upstream data error."

\* C1: no failure of a symbol's assembly fails the batch: the mapped function never
\* rejects, every answered request answers 200 with exactly one pick per requested
\* symbol, and the pick of a symbol whose assembly failed is the degraded
\* placeholder (score 0, no price, seven absent signals, no details, the
\* "unavailable" explanation).
C1_BatchNeverFails ==
  \A r \in Slots :
    /\ \A i \in 1..Len(reqs[r].calls) :
         /\ reqs[r].calls[i].st # "threw"
         /\ reqs[r].calls[i].st = "failed" =>
              DegradedPlaceholder(reqs[r].calls[i].result, reqs[r].symbols[i])
    /\ reqs[r].state = "done" =>
         /\ reqs[r].status = 200
         /\ OnePickPerSymbol(r, reqs[r].picks)

\* An answered request of two symbols, one assembled and one failed.
C1_Witness ==
  \E r \in Slots :
    /\ reqs[r].state = "done"
    /\ reqs[r].status = 200
    /\ Len(reqs[r].picks) = 2
    /\ \E i, j \in 1..2 : reqs[r].calls[i].st = "failed" /\ reqs[r].calls[j].st = "ok"

\* The freshness condition as the contract words it.
WithinTTL(symbol) == cache[symbol].present /\ clock - cache[symbol].updatedAt < CACHE_TTL_MS

\* Request r is received in this step.
Received(r) == reqs[r].state = "idle" /\ reqs'[r].state = "open"

StaleCalls(r) == {i \in 1..Len(reqs'[r].calls) : ~WithinTTL(reqs'[r].calls[i].symbol)}

CacheHitStep ==
  \A r \in Slots :
    Received(r) =>
      /\ \A i \in 1..Len(reqs'[r].calls) :
           WithinTTL(reqs'[r].calls[i].symbol) =>
             /\ reqs'[r].calls[i].st = "hit"
             /\ reqs'[r].calls[i].result = cache[reqs'[r].calls[i].symbol].payload
             /\ reqs'[r].calls[i].id = 0
      /\ StaleCalls(r) = {} => assemblies' = assemblies
      /\ cache' = cache

\* A payload returned from the cache is the stored payload for as long as nothing
\* is written to the key.
HitsReturnStoredPayload ==
  \A r \in Slots :
    \A i \in 1..Len(reqs[r].calls) :
      reqs[r].calls[i].st = "hit" /\ reqs[r].calls[i].result.id = lastWriter[reqs[r].calls[i].symbol]
        => reqs[r].calls[i].result = cache[reqs[r].calls[i].symbol].payload

\* C3: a loadSignal call that finds an entry with now - updatedAt < TTL returns the
\* stored payload itself, starts no assembly and writes nothing to the cache; two
\* calls within the TTL with no write in between return the same payload.
C3_CacheHit == [](HitsReturnStoredPayload) /\ [][CacheHitStep]_vars

\* A second request, later but within the TTL, returns the payload the first stored.
C3_Witness ==
  \E r1, r2 \in Slots :
    /\ r1 # r2
    /\ Len(reqs[r1].calls) = 1 /\ Len(reqs[r2].calls) = 1
    /\ reqs[r1].calls[1].st = "ok"
    /\ reqs[r2].calls[1].st = "hit"
    /\ reqs[r2].calls[1].now > reqs[r1].calls[1].now
    /\ reqs[r2].calls[1].result = reqs[r1].calls[1].result
    /\ reqs[r2].calls[1].result = cache[reqs[r2].calls[1].symbol].payload
    /\ assemblies = 1


\* A call that finds no entry, or one with now - updatedAt >= TTL, starts exactly
\* one assembly of its own.
RefreshStartStep ==
  \A r \in Slots :
    Received(r) =>
      /\ \A i \in StaleCalls(r) :
           /\ reqs'[r].calls[i].st = "pending"
           /\ reqs'[r].calls[i].id > assemblies
           /\ reqs'[r].calls[i].id <= assemblies'
           /\ \A j \in StaleCalls(r) \ {i} : reqs'[r].calls[j].id # reqs'[r].calls[i].id
      /\ assemblies' = assemblies + Cardinality(StaleCalls(r))

\* Call i of request r resumes in this step with a fulfilled assembly.
Succeeded(r, i) ==
  /\ i <= Len(reqs[r].calls)
  /\ reqs[r].calls[i].st = "pending"
  /\ reqs'[r].calls[i].st = "ok"

\* The entry is overwritten with the payload of the call's own assembly, which the
\* call returns; its updatedAt is (strictly) later than the replaced payload's.
RefreshEndStep(strictly) ==
  \A r \in Slots :
    \A i \in 1..MaxSymbols :
      Succeeded(r, i) =>
        LET call == reqs'[r].calls[i]
            replaced == cache[call.symbol]
        IN /\ call.result.ok
           /\ call.result.id = reqs[r].calls[i].id
           /\ cache'[call.symbol].present
           /\ cache'[call.symbol].payload = call.result
           /\ replaced.present =>
                IF strictly THEN call.result.updatedAt > replaced.payload.updatedAt
                ELSE call.result.updatedAt >= replaced.payload.updatedAt

\* C4 as stated: a call on a missing or expired entry whose assembly succeeds
\* invokes exactly one assembly, overwrites the entry with the new payload and
\* returns it, and the new payload's updatedAt is newer than the replaced one's.
C4_RefreshNewer == [][RefreshStartStep /\ RefreshEndStep(TRUE)]_vars

\* C4: a call on a missing or expired entry whose assembly succeeds invokes exactly
\* one assembly, overwrites the entry with the new payload and returns it, and the
\* new payload's updatedAt is not older than the replaced one's (it is equal when
\* both assemblies finish within the same millisecond).
C4_RefreshNotOlder == [][RefreshStartStep /\ RefreshEndStep(FALSE)]_vars

\* An entry that expired is replaced by the payload of a later call.
C4_Witness ==
  \E r \in Slots :
    \E i \in 1..Len(reqs[r].calls) :
      /\ reqs[r].calls[i].st = "ok"
      /\ reqs[r].calls[i].prevId # 0
      /\ reqs[r].calls[i].now >= CACHE_TTL_MS
      /\ reqs[r].calls[i].result.updatedAt > reqs[r].calls[i].prevAt
      /\ cache[reqs[r].calls[i].symbol].payload = reqs[r].calls[i].result

Written(symbol) == lastWriter'[symbol] # lastWriter[symbol]

FreshWhenWrittenStep ==
  \A s \in Symbols :
    /\ Written(s) => cache'[s].present /\ clock' - cache'[s].updatedAt < CACHE_TTL_MS
    /\ WithinTTL(s) /\ ~(clock' - cache'[s].updatedAt < CACHE_TTL_MS) => ~Written(s)

\* C5: per key the cache goes absent -> fresh -> stale -> fresh: an entry is fresh
\* at the moment a successful assembly writes it (time of write - updatedAt < TTL),
\* and a fresh key turns stale only by the passing of time, never by a write, for
\* every assembly duration and interleaving.
C5_FreshWhenWritten == [][FreshWhenWrittenStep]_vars

\* The transitions the code keeps: a key once present stays present, and an entry
\* changes only when a successful assembly writes it.
C5_EntriesChangeOnlyByWrites ==
  [][\A s \in Symbols : /\ cache[s].present => cache'[s].present
                        /\ cache'[s] # cache[s] => Written(s)]_vars

\* C8: the picks of an answered request are a permutation of the per-symbol
\* results of the request, in order of non-increasing score.
C8_PicksSortedByScore ==
  \A r \in Slots :
    reqs[r].state = "done" /\ reqs[r].status = 200 =>
      /\ OnePickPerSymbol(r, reqs[r].picks)
      /\ \A i, j \in 1..Len(reqs[r].picks) :
           i < j => Le(reqs[r].picks[j].score, reqs[r].picks[i].score)

\* The order C8 states holds whenever every score of the request is a number.
C8_SortedWhenScoresAreNumbers ==
  \A r \in Slots :
    reqs[r].state = "done" /\ reqs[r].status = 200
      /\ (\A i \in 1..Len(reqs[r].picks) : IsNum(reqs[r].picks[i].score)) =>
        \A i, j \in 1..Len(reqs[r].picks) :
          i < j => Le(reqs[r].picks[j].score, reqs[r].picks[i].score)

\* A not-a-number score is sent ahead of a larger numeric score.
C8_NaNScoreFirst ==
  \E r \in Slots :
    /\ reqs[r].state = "done"
    /\ Len(reqs[r].picks) = 2
    /\ IsNaN(reqs[r].picks[1].score)
    /\ reqs[r].picks[2].score = Rat(3, 5)

\* The stored payload of a key is the payload of the last write to the key.
LastWriteStored ==
  \A s \in Symbols :
    /\ cache[s].present <=> lastWriter[s] # 0
    /\ cache[s].present => cache[s].payload.id = lastWriter[s] /\ cache[s].payload.symbol = s

OwnPayloadReturned ==
  \A r \in Slots :
    \A i \in 1..Len(reqs[r].calls) :
      reqs[r].calls[i].st = "ok" =>
        /\ reqs[r].calls[i].result.id = reqs[r].calls[i].id
        /\ reqs[r].calls[i].result.symbol = reqs[r].calls[i].symbol

LastWriterWinsStep ==
  \A r \in Slots :
    \A i \in 1..MaxSymbols :
      Succeeded(r, i) =>
        /\ cache'[reqs[r].calls[i].symbol].payload = reqs'[r].calls[i].result
        /\ lastWriter'[reqs[r].calls[i].symbol] = reqs[r].calls[i].id
        /\ \A s \in Symbols \ {reqs[r].calls[i].symbol} : cache'[s] = cache[s]

\* C10: overlapping calls on the same missing or expired key each run an assembly
\* and each write the cache; the entry of the key holds the payload written last,
\* each call returns the payload of its own assembly, and a write changes no other
\* key's entry.
C10_LastWriterWins ==
  [](LastWriteStored /\ OwnPayloadReturned) /\ [][LastWriterWinsStep]_vars

\* Two calls of one request on the same key both assembled and both wrote; the
\* call that started first resumed last, and the entry holds its payload.
C10_Witness ==
  \E r \in Slots :
    /\ Len(reqs[r].calls) = 2
    /\ reqs[r].calls[1].symbol = reqs[r].calls[2].symbol
    /\ reqs[r].calls[1].st = "ok" /\ reqs[r].calls[2].st = "ok"
    /\ reqs[r].calls[1].id # reqs[r].calls[2].id
    /\ reqs[r].calls[1].prevId = reqs[r].calls[2].id
    /\ reqs[r].calls[1].result # reqs[r].calls[2].result
    /\ cache[reqs[r].calls[1].symbol].payload = reqs[r].calls[1].result
    /\ \A s \in Symbols \ {reqs[r].calls[1].symbol} : ~cache[s].present


\* Call i of request r resumes in this step with a rejected assembly.
Failed(r, i) ==
  /\ i <= Len(reqs[r].calls)
  /\ reqs[r].calls[i].st = "pending"
  /\ reqs'[r].calls[i].st = "failed"

FailureLeavesCacheStep ==
  /\ \A r \in Slots :
       \A i \in 1..MaxSymbols :
         Failed(r, i) =>
           /\ cache' = cache
           /\ lastWriter' = lastWriter
           /\ reqs'[r].calls[i].result # cache'[reqs[r].calls[i].symbol].payload
  /\ \A r \in Slots :
       Received(r) =>
         \A i \in StaleCalls(r) :
           reqs'[r].calls[i].st = "pending" /\ reqs'[r].calls[i].id > assemblies

\* No stored payload is the placeholder of a failed call.
NoPlaceholderStored ==
  \A s \in Symbols :
    cache[s].present =>
      /\ cache[s].payload.id # 0
      /\ cache[s].payload.explanation # "Signal unavailable due to upstream data error."
      /\ \A r \in Slots :
           \A i \in 1..Len(reqs[r].calls) :
             reqs[r].calls[i].st = "failed" => cache[s].payload # reqs[r].calls[i].result

\* C11: a loadSignal call whose assembly fails leaves the cache map unchanged (no
\* entry is created for a missing key, an expired entry keeps its payload and
\* updatedAt), the placeholder the handler substitutes is never stored, and the
\* next call on the still missing or expired key starts a new assembly.
C11_FailureLeavesCache == [](NoPlaceholderStored) /\ [][FailureLeavesCacheStep]_vars

\* An expired entry survives the failure of the call that tried to refresh it.
C11_Witness ==
  \E r1, r2 \in Slots :
    /\ r1 # r2
    /\ Len(reqs[r1].calls) = 1 /\ Len(reqs[r2].calls) = 1
    /\ reqs[r1].calls[1].symbol = reqs[r2].calls[1].symbol
    /\ reqs[r1].calls[1].st = "ok"
    /\ reqs[r2].calls[1].st = "failed"
    /\ reqs[r2].calls[1].now - reqs[r1].calls[1].now >= CACHE_TTL_MS
    /\ cache[reqs[r1].calls[1].symbol].payload = reqs[r1].calls[1].result
    /\ cache[reqs[r1].calls[1].symbol].updatedAt = reqs[r1].calls[1].now

\* After a failed call on a missing key the next call on the key assembles anew.
C11_RetryAfterFailure ==
  \E r1, r2 \in Slots :
    /\ r1 # r2
    /\ Len(reqs[r1].calls) = 1 /\ Len(reqs[r2].calls) = 1
    /\ reqs[r1].calls[1].symbol = reqs[r2].calls[1].symbol
    /\ reqs[r1].calls[1].st = "failed"
    /\ reqs[r2].calls[1].st = "ok"
    /\ reqs[r2].calls[1].id > reqs[r1].calls[1].id
    /\ reqs[r2].calls[1].prevId = 0

====
